---- MODULE Spec2Model ----
(***************************************************************************)
(* Model of the OAuth2 token manager `Auth` of mal-api-rs (src/auth.rs).   *)
(*                                                                         *)
(* The four token fields each sit behind their own std Mutex, so every     *)
(* read or write of one field is one atomic step and nothing larger is.    *)
(* Tasks (Procs) call the async operations; an operation advances one      *)
(* shared access (or one await) per step, with its locals kept in the      *)
(* task's frame.  The wall clock `now` is Utc::now().timestamp() and may   *)
(* advance whenever no task is between two awaits: the synchronous code    *)
(* between suspension points takes no time on a clock counted in seconds.  *)
(*                                                                         *)
(* Spec is one caller making one call after the other (setters and         *)
(* to_auth between calls); SpecConc is two tasks sharing the Auth.         *)
(* SpecRead is one caller that refreshes, sets and reads the fields        *)
(* (getters, to_tokens); SpecReadConc is one task writing (refresh,        *)
(* regenerate) while another reads; SpecApi is one caller that refreshes,  *)
(* sets the fields and sends API requests (src/api_request.rs).            *)
(***************************************************************************)
EXTENDS Integers, FiniteSets, Sequences, TLC

(* ---------------------------- bounds ---------------------------------- *)
\* token-endpoint requests issued in one behaviour
MaxExchanges == 2
\* seconds the clock may run past 0 (and past one refresh window)
MaxClock == 1

(* ----------------------- program constants ---------------------------- *)
\* auth.rs:401  const DAYS: u64 = 31
DAYS == 31
\* auth.rs:420  Self::DAYS * 24 * 60 * 60
RefreshWindow == DAYS * 24 * 60 * 60
\* auth.rs:176  AccessToken::new(String::new()): the empty secret
Empty == 0

\* the tasks that use the shared Auth concurrently
Procs == {1, 2}
\* tokio Mutex `callback` has no holder
NoHolder == 0

(* ---------------------------- inputs ---------------------------------- *)
\* secrets a caller may hand to set_*_token_unchecked
TokenInputs == {Empty, 1}
\* absolute expiries a caller may hand to set_*_expires_at_unchecked
ExpiryInputs == {0, 1}
\* durations a caller may hand to set_*_expires_in_unchecked
DurationInputs == {1}
\* expires_in values (seconds) the provider may report: a token lives for
\* at least one second
ExpiresInValues == {1}
\* CsrfToken::new_random draws from these secrets
StateSecrets == {1, 2}
\* PkceCodeChallenge::new_random_plain draws the verifier from these secrets
VerifierSecrets == {1, 2}
\* HTTP statuses the API may answer with: the five the code names, and two
\* others (one of them a success other than 200)
StatusCodes == {200, 204, 400, 401, 403, 404, 500}
\* response bodies: one that parses as ApiRequestError {error, message}, one
\* that parses as the requested type D, one that parses as neither
Bodies == {"error", "data", "other"}
\* RequestMethod, api_request.rs:12-16
RequestMethods == {"Get", "Put", "Delete"}

TickSteps == {1, RefreshWindow}

\* Option<T>: None is {}, Some(v) is {v}
None == {}
Some(v) == {v}
unwrap(o) == CHOOSE v \in o : TRUE

VARIABLES
    now,                 \* Utc::now().timestamp() as u64
    access_token,        \* Auth.access_token
    refresh_token,       \* Auth.refresh_token
    expires_at,          \* Auth.expires_at
    refresh_expires_at,  \* Auth.refresh_expires_at
    callback,            \* Auth.callback: "default" (unimplemented!) or "user"
    cbLock,              \* holder of the tokio Mutex around callback
    netCalls,            \* requests the token endpoint has received
    frame,               \* per task: position and locals of its operation
    lastWrite            \* history: what last wrote the token fields

vars == <<now, access_token, refresh_token, expires_at, refresh_expires_at,
          callback, cbLock, netCalls, frame, lastWrite>>

tokenState == <<access_token, refresh_token, expires_at, refresh_expires_at>>

(* --------------------------- construction ----------------------------- *)
\* (variant: a new Auth whose access expiry is preset a window ahead)
Auth_new_preset == [access_token |-> Empty, refresh_token |-> Empty,
                    expires_at |-> RefreshWindow, refresh_expires_at |-> 0,
                    callback |-> "default"]

\* Auth::new, lines 172-185: empty tokens, zero expiries, no callback
Auth_new == [access_token |-> Empty, refresh_token |-> Empty,
             expires_at |-> 0, refresh_expires_at |-> 0,
             callback |-> "default"]

\* impl Default for AuthTokens, lines 70-79
AuthTokens_default == [access_token |-> Empty, refresh_token |-> Empty,
                       expires_at |-> 0, refresh_expires_at |-> 0]

\* AuthTokens::to_auth / into_auth, lines 82-112: a new Auth, then the four
\* unchecked setters
to_auth(tokens) ==
    [Auth_new EXCEPT !.access_token = tokens.access_token,
                     !.refresh_token = tokens.refresh_token,
                     !.expires_at = tokens.expires_at,
                     !.refresh_expires_at = tokens.refresh_expires_at]

(* ------------------------------ tasks --------------------------------- *)
\* a token response that carries nothing (also the failed exchange)
NoToken == [ok |-> FALSE, access_token |-> Empty, expires_in |-> None,
            refresh_token |-> None]

\* locals of a task that runs no operation
IdleFrame == [pc |-> "idle", op |-> "none", result |-> "none",
              refresh_valid |-> FALSE, access_valid |-> FALSE,
              token |-> NoToken, xid |-> 0, state |-> 0, client_state |-> 0,
              calls |-> 0, wrote |-> 0,
              value |-> 0, tokens |-> AuthTokens_default,
              pkce_challenge |-> 0, pkce_verifier |-> 0,
              held |-> {},
              is_auth |-> FALSE, bearer |-> None, client_id |-> FALSE,
              http |-> 0, status |-> 0, body |-> "none"]

\* the std Mutex guards task p holds at its position: each of the four
\* fields is locked for one statement (self.field.lock().unwrap())
Fields == {"access_token", "refresh_token", "expires_at", "refresh_expires_at"}

\* the Mutex of field f is not held: lock() on it returns at once
Free(f) == \A r \in Procs : f \notin frame[r].held

\* a task may begin an operation when its previous one has returned
Ready(p) == frame[p].pc \in {"idle", "done"}

Begin(p, op, pc) == [IdleFrame EXCEPT !.op = op, !.pc = pc]

\* task p is at a suspension point (an await on the network or on the
\* callback) or between two operations
Suspended(p) == frame[p].pc \in {"idle", "done", "refresh_await",
                                 "regenerate_callback", "regenerate_await",
                                 "api_request_await"}

\* the operation of task p returns r (a panic unwinds with r = "Panic")
\* the locals go out of scope; what the caller observed stays
Return(p, r) ==
    [frame EXCEPT ![p] = [IdleFrame EXCEPT
                             !.pc = "done", !.op = frame[p].op, !.result = r,
                             !.refresh_valid = frame[p].refresh_valid,
                             !.access_valid = frame[p].access_valid,
                             !.calls = frame[p].calls,
                             !.wrote = frame[p].wrote]]

\* no operation is in progress
Quiescent == \A p \in Procs : Ready(p)

(* --------------------------- write history ---------------------------- *)
\* the fields are as Auth::new or AuthTokens::to_auth left them
Constructed(how) == [by |-> how, xid |-> 0, at |-> 0, expires_in |-> 0]
\* an unchecked setter wrote last
BySetter == [by |-> "setter", xid |-> 0, at |-> 0, expires_in |-> 0]
\* writes of different exchanges have interleaved
Mixed == [by |-> "mixed", xid |-> 0, at |-> 0, expires_in |-> 0]
\* exchange xid of operation op stored its expiry at time `at`
ByExchange(op, xid, at, e) == [by |-> op, xid |-> xid, at |-> at, expires_in |-> e]
\* a later write of the same exchange
SameExchange(xid) == IF lastWrite.xid = xid THEN lastWrite ELSE Mixed

(* ------------------------- validity checks ---------------------------- *)
\* (variant: the expiry instant itself still counts as valid)
is_access_valid_inclusive == now <= expires_at

\* lines 341-343
is_access_valid == now < expires_at

\* lines 354-356
is_refresh_valid == now < refresh_expires_at

(* ------------------------------ Init ---------------------------------- *)
Init ==
    /\ now = 0
    /\ access_token = Auth_new.access_token
    /\ refresh_token = Auth_new.refresh_token
    /\ expires_at = Auth_new.expires_at
    /\ refresh_expires_at = Auth_new.refresh_expires_at
    /\ callback = Auth_new.callback
    /\ lastWrite = Constructed("new")
    /\ cbLock = NoHolder
    /\ netCalls = 0
    /\ frame = [p \in Procs |-> IdleFrame]

\* token snapshots a caller may have saved (AuthTokens is plain data):
\* the default one, and one taken when token 1 was valid until time 1
SavedTokens ==
    {AuthTokens_default,
     [access_token |-> 1, refresh_token |-> 1,
      expires_at |-> 1, refresh_expires_at |-> RefreshWindow]}

\* the caller drops its Auth and goes on with tokens.to_auth(..)
tokens_to_auth ==
    /\ Quiescent
    /\ \E tokens \in SavedTokens :
          LET auth == to_auth(tokens)
          IN  /\ access_token' = auth.access_token
              /\ refresh_token' = auth.refresh_token
              /\ expires_at' = auth.expires_at
              /\ refresh_expires_at' = auth.refresh_expires_at
              /\ callback' = auth.callback
              /\ lastWrite' = IF tokens = AuthTokens_default
                                THEN Constructed("default")
                                ELSE Constructed("restored")
    /\ UNCHANGED <<now, cbLock, netCalls, frame>>

(* ------------------------------ clock --------------------------------- *)
Tick ==
    /\ \A p \in Procs : Suspended(p)
    /\ \E d \in TickSteps :
          /\ now + d <= RefreshWindow + MaxClock
          /\ (now + d) % RefreshWindow <= MaxClock
          /\ now' = now + d
    /\ UNCHANGED <<access_token, refresh_token, expires_at, refresh_expires_at,
                   callback, cbLock, netCalls, frame>>
    /\ UNCHANGED lastWrite

(* ------------------------- unchecked setters -------------------------- *)
set_refresh_token_unchecked ==
    /\ \E token \in TokenInputs : refresh_token' = token
    /\ Free("refresh_token")
    /\ UNCHANGED <<now, access_token, expires_at, refresh_expires_at,
                   callback, cbLock, netCalls, frame>>
    /\ lastWrite' = BySetter

set_access_token_unchecked ==
    /\ \E token \in TokenInputs : access_token' = token
    /\ Free("access_token")
    /\ UNCHANGED <<now, refresh_token, expires_at, refresh_expires_at,
                   callback, cbLock, netCalls, frame>>
    /\ lastWrite' = BySetter

set_expires_at_unchecked ==
    /\ \E expiry \in ExpiryInputs : expires_at' = expiry
    /\ Free("expires_at")
    /\ UNCHANGED <<now, access_token, refresh_token, refresh_expires_at,
                   callback, cbLock, netCalls, frame>>
    /\ lastWrite' = BySetter

set_expires_in_unchecked ==
    /\ \E duration \in DurationInputs : expires_at' = now + duration
    /\ Free("expires_at")
    /\ UNCHANGED <<now, access_token, refresh_token, refresh_expires_at,
                   callback, cbLock, netCalls, frame>>
    /\ lastWrite' = BySetter

set_refresh_expires_in_unchecked ==
    /\ \E duration \in DurationInputs : refresh_expires_at' = now + duration
    /\ Free("refresh_expires_at")
    /\ UNCHANGED <<now, access_token, refresh_token, expires_at,
                   callback, cbLock, netCalls, frame>>
    /\ lastWrite' = BySetter

set_refresh_expires_at_unchecked ==
    /\ \E expiry \in ExpiryInputs : refresh_expires_at' = expiry
    /\ Free("refresh_expires_at")
    /\ UNCHANGED <<now, access_token, refresh_token, expires_at,
                   callback, cbLock, netCalls, frame>>
    /\ lastWrite' = BySetter

(* --------------------------- token endpoint --------------------------- *)
\* what the token endpoint may answer to request number k: a failure
\* (provider rejection or transport error), or a token response whose
\* access token is the k-th issued; expires_in and refresh_token are
\* optional fields of a token response
Responses(k) ==
    {NoToken} \cup
    { [ok |-> TRUE, access_token |-> k, expires_in |-> e, refresh_token |-> r] :
        e \in {None} \cup {Some(x) : x \in ExpiresInValues},
        r \in {None, Some(k)} }

\* task p, with locals fr, sends one request to the token endpoint and
\* suspends at pc until the answer arrives
request_async(p, fr, pc) ==
    /\ netCalls < MaxExchanges
    /\ netCalls' = netCalls + 1
    /\ frame' = [frame EXCEPT ![p] = [fr EXCEPT !.pc = pc,
                                                !.xid = netCalls + 1,
                                                !.calls = @ + 1]]

\* (variant: the reported duration is stored as if it were the instant)
expires_at_duration(clock, expires_in) == expires_in

\* lines 415 and 481: Utc::now().timestamp() as u64 + expires_in.as_secs()
expires_at_from(clock, expires_in) == clock + expires_in

\* (variant: the window is counted in minutes, a factor of 60 short)
refresh_expires_at_minutes(clock) == clock + DAYS * 24 * 60

\* lines 420 and 486: Utc::now().timestamp() as u64 + (Self::DAYS * 24 * 60 * 60)
refresh_expires_at_from(clock) == clock + RefreshWindow

(* ------------------------------ refresh ------------------------------- *)
\* (variant: a failed refresh exchange is reported as an expired refresh token)
exchange_refresh_error_expired == "RefreshExpired"

\* line 412: .map_err(|e| TokenError::OAuth2(e.to_string()))?
exchange_refresh_error == "OAuth2"

\* (variant: the MutexGuard of line 405 is bound to a name and lives on)
refresh_token_guard_kept == {"refresh_token"}

\* line 405, self.refresh_token.lock().unwrap().clone(): the guard is a
\* temporary and is dropped at the end of the statement
refresh_token_guard == {}

\* refresh(), lines 405-411: read the stored refresh token and send it
refresh(p) ==
    /\ Ready(p)
    /\ Free("refresh_token")
    /\ request_async(p, [Begin(p, "refresh", "refresh")
                            EXCEPT !.held = refresh_token_guard],
                     "refresh_await")
    /\ UNCHANGED <<now, access_token, refresh_token, expires_at,
                   refresh_expires_at, callback, cbLock>>
    /\ UNCHANGED lastWrite

\* lines 407-412: the answer arrives; a failure returns Err(OAuth2), also
\* out of try_refresh (the `?` at line 369)
refresh_await(p) ==
    /\ frame[p].pc = "refresh_await"
    /\ \E resp \in Responses(frame[p].xid) :
          frame' = IF resp.ok
                     THEN [frame EXCEPT ![p].pc = "refresh_set_expires_at",
                                        ![p].token = resp]
                     ELSE Return(p, exchange_refresh_error)
    /\ UNCHANGED <<now, access_token, refresh_token, expires_at,
                   refresh_expires_at, callback, cbLock, netCalls>>
    /\ UNCHANGED lastWrite

\* lines 414-416: expires_in().unwrap() panics before the lock is taken
refresh_set_expires_at(p) ==
    /\ frame[p].pc = "refresh_set_expires_at"
    /\ IF frame[p].token.expires_in = None
         THEN /\ frame' = Return(p, "Panic")
              /\ UNCHANGED <<expires_at, lastWrite>>
         ELSE /\ Free("expires_at")
              /\ expires_at' = expires_at_from(now,
                                  unwrap(frame[p].token.expires_in))
              /\ lastWrite' = ByExchange("refresh", frame[p].xid, now,
                                         unwrap(frame[p].token.expires_in))
              /\ frame' = [frame EXCEPT ![p].pc = "refresh_set_refresh_expires_at",
                                        ![p].wrote = @ + 1]
    /\ UNCHANGED <<now, access_token, refresh_token, refresh_expires_at,
                   callback, cbLock, netCalls>>

\* lines 419-421
refresh_set_refresh_expires_at(p) ==
    /\ frame[p].pc = "refresh_set_refresh_expires_at"
    /\ Free("refresh_expires_at")
    /\ refresh_expires_at' = refresh_expires_at_from(now)
    /\ frame' = [frame EXCEPT ![p].pc = "refresh_set_access_token",
                              ![p].wrote = @ + 1]
    /\ UNCHANGED <<now, access_token, refresh_token, expires_at,
                   callback, cbLock, netCalls>>
    /\ lastWrite' = SameExchange(frame[p].xid)

\* line 423
refresh_set_access_token(p) ==
    /\ frame[p].pc = "refresh_set_access_token"
    /\ Free("access_token")
    /\ access_token' = frame[p].token.access_token
    /\ frame' = [frame EXCEPT ![p].pc = "refresh_set_refresh_token",
                              ![p].wrote = @ + 1]
    /\ UNCHANGED <<now, refresh_token, expires_at, refresh_expires_at,
                   callback, cbLock, netCalls>>
    /\ lastWrite' = SameExchange(frame[p].xid)

\* lines 425-427: refresh_token().unwrap() panics before the lock is taken;
\* otherwise the last field is stored and refresh returns Ok(()), which
\* try_refresh turns into its own Ok(()) (lines 373-377)
refresh_set_refresh_token(p) ==
    /\ frame[p].pc = "refresh_set_refresh_token"
    /\ IF frame[p].token.refresh_token = None
         THEN /\ frame' = Return(p, "Panic")
              /\ UNCHANGED <<refresh_token, lastWrite>>
         ELSE /\ Free("refresh_token")
              /\ refresh_token' = unwrap(frame[p].token.refresh_token)
              /\ lastWrite' = SameExchange(frame[p].xid)
              /\ frame' = [Return(p, "Ok") EXCEPT ![p].wrote = @ + 1]
    /\ UNCHANGED <<now, access_token, expires_at, refresh_expires_at,
                   callback, cbLock, netCalls>>

(* ---------------------------- try_refresh ----------------------------- *)
\* (variant: gives up although the refresh token is valid)
try_refresh_branch_norefresh(access_valid, refresh_valid) ==
    IF ~access_valid THEN "RefreshExpired" ELSE "Ok"

\* (variant: refreshes whenever access is invalid)
try_refresh_branch_always(access_valid, refresh_valid) ==
    IF ~access_valid THEN "refresh" ELSE "Ok"

\* (variant: refreshes whenever the refresh token is valid)
try_refresh_branch_eager(access_valid, refresh_valid) ==
    IF refresh_valid THEN "refresh"
    ELSE IF ~access_valid THEN "RefreshExpired" ELSE "Ok"

\* lines 368-377: what try_refresh does with the two flags
try_refresh_branch(access_valid, refresh_valid) ==
    IF ~access_valid /\ refresh_valid THEN "refresh"
    ELSE IF ~access_valid /\ ~refresh_valid THEN "RefreshExpired"
    ELSE "Ok"

\* line 365: let refresh_valid = self.is_refresh_valid()
try_refresh(p) ==
    /\ Ready(p)
    /\ Free("refresh_expires_at")
    /\ frame' = [frame EXCEPT ![p] =
                    [Begin(p, "try_refresh", "try_refresh_access")
                        EXCEPT !.refresh_valid = is_refresh_valid]]
    /\ UNCHANGED <<now, access_token, refresh_token, expires_at,
                   refresh_expires_at, callback, cbLock, netCalls>>
    /\ UNCHANGED lastWrite

\* lines 366-377: let access_valid = self.is_access_valid(); then either
\* go on to refresh() or return at once
try_refresh_access(p) ==
    /\ frame[p].pc = "try_refresh_access"
    /\ Free("expires_at")
    /\ LET access_valid == is_access_valid
           refresh_valid == frame[p].refresh_valid
           fr == [frame EXCEPT ![p].access_valid = access_valid]
           branch == try_refresh_branch(access_valid, refresh_valid)
       IN  frame' =
              IF branch = "refresh"
                THEN [fr EXCEPT ![p].pc = "try_refresh_refresh"]
                ELSE [Return(p, branch) EXCEPT ![p].access_valid = access_valid]
    /\ UNCHANGED <<now, access_token, refresh_token, expires_at,
                   refresh_expires_at, callback, cbLock, netCalls>>
    /\ UNCHANGED lastWrite

\* line 369: self.refresh().await, which starts as refresh() does
try_refresh_refresh(p) ==
    /\ frame[p].pc = "try_refresh_refresh"
    /\ Free("refresh_token")
    /\ request_async(p, [frame[p] EXCEPT !.held = refresh_token_guard],
                     "refresh_await")
    /\ UNCHANGED <<now, access_token, refresh_token, expires_at,
                   refresh_expires_at, callback, cbLock>>
    /\ UNCHANGED lastWrite

(* -------------------- validity checks, as called ---------------------- *)
\* a caller calls is_access_valid() or is_refresh_valid()
call_is_valid(p) ==
    /\ Ready(p)
    /\ \E op \in {"is_access_valid", "is_refresh_valid"} :
          frame' = [frame EXCEPT ![p] = Begin(p, op, op)]
    /\ UNCHANGED <<now, access_token, refresh_token, expires_at,
                   refresh_expires_at, callback, cbLock, netCalls, lastWrite>>

\* is_access_valid(), lines 341-343: the clock against the locked expires_at
ret_is_access_valid(p) ==
    /\ frame[p].pc = "is_access_valid"
    /\ Free("expires_at")
    /\ frame' = [Return(p, "none") EXCEPT ![p].access_valid = is_access_valid]
    /\ UNCHANGED <<now, access_token, refresh_token, expires_at,
                   refresh_expires_at, callback, cbLock, netCalls, lastWrite>>

\* is_refresh_valid(), lines 354-356
ret_is_refresh_valid(p) ==
    /\ frame[p].pc = "is_refresh_valid"
    /\ Free("refresh_expires_at")
    /\ frame' = [Return(p, "none") EXCEPT ![p].refresh_valid = is_refresh_valid]
    /\ UNCHANGED <<now, access_token, refresh_token, expires_at,
                   refresh_expires_at, callback, cbLock, netCalls, lastWrite>>

(* ------------------------------ getters ------------------------------- *)
\* access_token(), lines 216-218
Auth_access_token == access_token

\* refresh_token(), lines 221-223
Auth_refresh_token == refresh_token

\* (variant: the getter reads the refresh expiry's field)
Auth_expires_at_swapped == refresh_expires_at

\* expires_at(), lines 391-393
Auth_expires_at == expires_at

\* refresh_expires_at(), lines 396-398: *self.expires_at.lock().unwrap()
Auth_refresh_expires_at == expires_at

\* a caller calls one of the four getters
call_getter(p) ==
    /\ Ready(p)
    /\ \E op \in {"access_token", "refresh_token", "expires_at",
                   "refresh_expires_at"} :
          frame' = [frame EXCEPT ![p] = Begin(p, op, op)]
    /\ UNCHANGED <<now, access_token, refresh_token, expires_at,
                   refresh_expires_at, callback, cbLock, netCalls, lastWrite>>

\* the Mutex a getter locks; refresh_expires_at() locks expires_at (line 397)
getter_lock(op) == IF op = "refresh_expires_at" THEN "expires_at" ELSE op

\* the getter takes its lock, copies the value out and returns it
ret_getter(p) ==
    /\ frame[p].pc \in {"access_token", "refresh_token", "expires_at",
                        "refresh_expires_at"}
    /\ Free(getter_lock(frame[p].pc))
    /\ frame' = [Return(p, "none") EXCEPT ![p].value =
                    CASE frame[p].pc = "access_token" -> Auth_access_token
                      [] frame[p].pc = "refresh_token" -> Auth_refresh_token
                      [] frame[p].pc = "expires_at" -> Auth_expires_at
                      [] frame[p].pc = "refresh_expires_at"
                            -> Auth_refresh_expires_at]
    /\ UNCHANGED <<now, access_token, refresh_token, expires_at,
                   refresh_expires_at, callback, cbLock, netCalls, lastWrite>>

(* ----------------------------- to_tokens ------------------------------ *)
\* to_tokens(), line 192: let at = self.access_token()
to_tokens(p) ==
    /\ Ready(p)
    /\ Free("access_token")
    /\ frame' = [frame EXCEPT ![p] =
                    [Begin(p, "to_tokens", "to_tokens_refresh_token")
                        EXCEPT !.tokens.access_token = Auth_access_token]]
    /\ UNCHANGED <<now, access_token, refresh_token, expires_at,
                   refresh_expires_at, callback, cbLock, netCalls, lastWrite>>

\* line 193: let rt = self.refresh_token()
to_tokens_refresh_token(p) ==
    /\ frame[p].pc = "to_tokens_refresh_token"
    /\ Free("refresh_token")
    /\ frame' = [frame EXCEPT ![p].pc = "to_tokens_expires_at",
                              ![p].tokens.refresh_token = Auth_refresh_token]
    /\ UNCHANGED <<now, access_token, refresh_token, expires_at,
                   refresh_expires_at, callback, cbLock, netCalls, lastWrite>>

\* line 194: let ea = self.expires_at()
to_tokens_expires_at(p) ==
    /\ frame[p].pc = "to_tokens_expires_at"
    /\ Free("expires_at")
    /\ frame' = [frame EXCEPT ![p].pc = "to_tokens_refresh_expires_at",
                              ![p].tokens.expires_at = Auth_expires_at]
    /\ UNCHANGED <<now, access_token, refresh_token, expires_at,
                   refresh_expires_at, callback, cbLock, netCalls, lastWrite>>

\* lines 195-202: let rea = self.refresh_expires_at(), and the snapshot is
\* returned
to_tokens_refresh_expires_at(p) ==
    /\ frame[p].pc = "to_tokens_refresh_expires_at"
    /\ Free("expires_at")
    /\ frame' = [Return(p, "none") EXCEPT ![p].tokens =
                    [frame[p].tokens EXCEPT
                        !.refresh_expires_at = Auth_refresh_expires_at]]
    /\ UNCHANGED <<now, access_token, refresh_token, expires_at,
                   refresh_expires_at, callback, cbLock, netCalls, lastWrite>>

(* ---------------------------- set_callback ---------------------------- *)
\* lines 310-311: waits for the tokio Mutex, then replaces the callback
set_callback ==
    /\ cbLock = NoHolder
    /\ callback' = "user"
    /\ UNCHANGED <<now, access_token, refresh_token, expires_at,
                   refresh_expires_at, cbLock, netCalls, frame>>
    /\ UNCHANGED lastWrite

(* ----------------------------- regenerate ----------------------------- *)
\* (variant: the returned state is not compared)
state_matches_unchecked(state, client_state) == TRUE

\* line 465: state.secret() != client_state.secret() is a mismatch
state_matches(state, client_state) == state = client_state

\* (variant: a failed callback is reported as a failed exchange)
callback_error_access == "Access"

\* line 460: Err(e) => return Err(TokenError::Callback(e.to_string()))
callback_error == "Callback"

\* (variant: the exchange error is mapped as refresh() maps it)
exchange_code_error_oauth2 == "OAuth2"

\* lines 476-478: any failure of the code exchange is TokenError::Access
exchange_code_error == "Access"

\* line 443, PkceCodeChallenge::new_random_plain(): the challenge method is
\* "plain", the code_challenge is the code_verifier itself
new_random_plain(verifier) ==
    [pkce_challenge |-> verifier, pkce_verifier |-> verifier]

\* lines 443-452: a fresh PKCE challenge and a fresh CSRF state go into the
\* authorization URL; the verifier stays with the call
regenerate(p) ==
    /\ Ready(p)
    /\ \E state \in StateSecrets, verifier \in VerifierSecrets :
          LET pkce == new_random_plain(verifier)
          IN  frame' = [frame EXCEPT ![p] =
                           [Begin(p, "regenerate", "regenerate_lock")
                               EXCEPT !.state = state,
                                      !.pkce_challenge = pkce.pkce_challenge,
                                      !.pkce_verifier = pkce.pkce_verifier]]
    /\ UNCHANGED <<now, access_token, refresh_token, expires_at,
                   refresh_expires_at, callback, cbLock, netCalls>>
    /\ UNCHANGED lastWrite

\* lines 457-458: take the callback lock and call the callback; the
\* default callback is unimplemented!() and panics, which drops the guard
regenerate_lock(p) ==
    /\ frame[p].pc = "regenerate_lock"
    /\ cbLock = NoHolder
    /\ IF callback = "default"
         THEN /\ frame' = Return(p, "Panic")
              /\ UNCHANGED cbLock
         ELSE /\ frame' = [frame EXCEPT ![p].pc = "regenerate_callback"]
              /\ cbLock' = p
    /\ UNCHANGED <<now, access_token, refresh_token, expires_at,
                   refresh_expires_at, callback, netCalls>>
    /\ UNCHANGED lastWrite

\* lines 458-462: the callback's future completes with an error; the guard
\* is dropped and regenerate returns Err(Callback)
regenerate_callback_err(p) ==
    /\ frame[p].pc = "regenerate_callback"
    /\ cbLock' = NoHolder
    /\ frame' = Return(p, callback_error)
    /\ UNCHANGED <<now, access_token, refresh_token, expires_at,
                   refresh_expires_at, callback, netCalls>>
    /\ UNCHANGED lastWrite

\* lines 458-474: the callback's future completes with a code and a state;
\* the guard is dropped, the states are compared, and on a match the code
\* is sent to the token endpoint, the PKCE verifier moved into the request
regenerate_callback_ok(p) ==
    /\ frame[p].pc = "regenerate_callback"
    /\ cbLock' = NoHolder
    /\ \E client_state \in StateSecrets :
          LET fr == [frame[p] EXCEPT !.client_state = client_state,
                                     !.pkce_challenge = 0,
                                     !.pkce_verifier = 0]
          IN  IF ~state_matches(frame[p].state, client_state)
                THEN /\ frame' = [Return(p, "StateMismatch")
                                     EXCEPT ![p].state = frame[p].state,
                                            ![p].client_state = client_state]
                     /\ UNCHANGED netCalls
                ELSE request_async(p, fr, "regenerate_await")
    /\ UNCHANGED <<now, access_token, refresh_token, expires_at,
                   refresh_expires_at, callback>>
    /\ UNCHANGED lastWrite

\* lines 470-478: the answer arrives; any failure returns Err(Access)
regenerate_await(p) ==
    /\ frame[p].pc = "regenerate_await"
    /\ \E resp \in Responses(frame[p].xid) :
          frame' = IF resp.ok
                     THEN [frame EXCEPT ![p].pc = "regenerate_set_expires_at",
                                        ![p].token = resp]
                     ELSE Return(p, exchange_code_error)
    /\ UNCHANGED <<now, access_token, refresh_token, expires_at,
                   refresh_expires_at, callback, cbLock, netCalls>>
    /\ UNCHANGED lastWrite

\* lines 480-482: expires_in().unwrap() panics before the lock is taken
regenerate_set_expires_at(p) ==
    /\ frame[p].pc = "regenerate_set_expires_at"
    /\ IF frame[p].token.expires_in = None
         THEN /\ frame' = Return(p, "Panic")
              /\ UNCHANGED <<expires_at, lastWrite>>
         ELSE /\ Free("expires_at")
              /\ expires_at' = expires_at_from(now,
                                  unwrap(frame[p].token.expires_in))
              /\ lastWrite' = ByExchange("regenerate", frame[p].xid, now,
                                         unwrap(frame[p].token.expires_in))
              /\ frame' = [frame EXCEPT ![p].pc = "regenerate_set_refresh_expires_at",
                              ![p].wrote = @ + 1]
    /\ UNCHANGED <<now, access_token, refresh_token, refresh_expires_at,
                   callback, cbLock, netCalls>>

\* lines 485-487
regenerate_set_refresh_expires_at(p) ==
    /\ frame[p].pc = "regenerate_set_refresh_expires_at"
    /\ Free("refresh_expires_at")
    /\ refresh_expires_at' = refresh_expires_at_from(now)
    /\ frame' = [frame EXCEPT ![p].pc = "regenerate_set_access_token",
                              ![p].wrote = @ + 1]
    /\ UNCHANGED <<now, access_token, refresh_token, expires_at,
                   callback, cbLock, netCalls>>
    /\ lastWrite' = SameExchange(frame[p].xid)

\* line 489
regenerate_set_access_token(p) ==
    /\ frame[p].pc = "regenerate_set_access_token"
    /\ Free("access_token")
    /\ access_token' = frame[p].token.access_token
    /\ frame' = [frame EXCEPT ![p].pc = "regenerate_set_refresh_token",
                              ![p].wrote = @ + 1]
    /\ UNCHANGED <<now, refresh_token, expires_at, refresh_expires_at,
                   callback, cbLock, netCalls>>
    /\ lastWrite' = SameExchange(frame[p].xid)

\* lines 491-493: refresh_token().unwrap() panics before the lock is taken;
\* otherwise the last field is stored and regenerate returns Ok(())
regenerate_set_refresh_token(p) ==
    /\ frame[p].pc = "regenerate_set_refresh_token"
    /\ IF frame[p].token.refresh_token = None
         THEN /\ frame' = Return(p, "Panic")
              /\ UNCHANGED <<refresh_token, lastWrite>>
         ELSE /\ Free("refresh_token")
              /\ refresh_token' = unwrap(frame[p].token.refresh_token)
              /\ lastWrite' = SameExchange(frame[p].xid)
              /\ frame' = [Return(p, "Ok") EXCEPT ![p].wrote = @ + 1]
    /\ UNCHANGED <<now, access_token, expires_at, refresh_expires_at,
                   callback, cbLock, netCalls>>

(* ---------------------------- api_request ---------------------------- *)
\* (variant: the bearer token is attached whether is_auth or not)
request_credentials_both(is_auth) ==
    [bearer |-> Some(Auth_access_token), client_id |-> ~is_auth]

\* api_request.rs:122-126: the stored access token as bearer if is_auth,
\* else the X-MAL-CLIENT-ID header
request_credentials(is_auth) ==
    IF is_auth THEN [bearer |-> Some(Auth_access_token), client_id |-> FALSE]
    ELSE [bearer |-> None, client_id |-> TRUE]

\* (variant: an error body is looked at before the status)
api_result_body_first(status, body) ==
    IF body = "error" THEN "ErrorMessage"
    ELSE CASE status = 400 -> "InvalidParameters"
           [] status = 401 -> "InvalidToken"
           [] status = 403 -> "Forbidden"
           [] status = 404 -> "NotFound"
           [] status = 200 -> IF body = "data" THEN "Ok" ELSE "ParseError"
           [] OTHER -> "StatusCode"

\* api_request.rs:135-180: the status decides first; only for 200 and for
\* the statuses without an arm of their own does the body matter
api_result(status, body) ==
    CASE status = 400 -> "InvalidParameters"
      [] status = 401 -> "InvalidToken"
      [] status = 403 -> "Forbidden"
      [] status = 404 -> "NotFound"
      [] status = 200 -> IF body = "error" THEN "ErrorMessage"
                         ELSE IF body = "data" THEN "Ok"
                         ELSE "ParseError"
      [] OTHER -> IF body = "error" THEN "ErrorMessage" ELSE "StatusCode"

\* api_request.rs:110-128 (get / put / delete, lines 69-96): build the
\* request, attach the credentials and send it; nothing checks or renews
\* the access token
api_request(p) ==
    /\ Ready(p)
    /\ \E method \in RequestMethods, is_auth \in BOOLEAN :
          /\ is_auth => Free("access_token")
          /\ LET cred == request_credentials(is_auth)
             IN  frame' = [frame EXCEPT ![p] =
                              [Begin(p, "api_request", "api_request_await")
                                  EXCEPT !.is_auth = is_auth,
                                         !.bearer = cred.bearer,
                                         !.client_id = cred.client_id,
                                         !.http = 1]]
    /\ UNCHANGED <<now, access_token, refresh_token, expires_at,
                   refresh_expires_at, callback, cbLock, netCalls, lastWrite>>

\* what the caller keeps of a request that has returned r
api_return(p, r, status, body) ==
    [Return(p, r) EXCEPT ![p].is_auth = frame[p].is_auth,
                         ![p].bearer = frame[p].bearer,
                         ![p].client_id = frame[p].client_id,
                         ![p].http = frame[p].http,
                         ![p].status = status,
                         ![p].body = body]

\* api_request.rs:128-131: the transport fails (send or text), Err(ReqwestError)
api_request_failed(p) ==
    /\ frame[p].pc = "api_request_await"
    /\ frame' = api_return(p, "ReqwestError", 0, "none")
    /\ UNCHANGED <<now, access_token, refresh_token, expires_at,
                   refresh_expires_at, callback, cbLock, netCalls, lastWrite>>

\* api_request.rs:128-180: the response arrives and is mapped to the result
api_request_await(p) ==
    /\ frame[p].pc = "api_request_await"
    /\ \E status \in StatusCodes, body \in Bodies :
          frame' = api_return(p, api_result(status, body), status, body)
    /\ UNCHANGED <<now, access_token, refresh_token, expires_at,
                   refresh_expires_at, callback, cbLock, netCalls, lastWrite>>

(* --------------------------- specifications --------------------------- *)
\* the unchecked setters, callable from any thread at any time
Setters ==
    \/ set_refresh_token_unchecked
    \/ set_access_token_unchecked
    \/ set_expires_at_unchecked
    \/ set_expires_in_unchecked
    \/ set_refresh_expires_in_unchecked
    \/ set_refresh_expires_at_unchecked

\* one step of an operation of task p
Step(p) ==
    \/ refresh(p)
    \/ refresh_await(p)
    \/ refresh_set_expires_at(p)
    \/ refresh_set_refresh_expires_at(p)
    \/ refresh_set_access_token(p)
    \/ refresh_set_refresh_token(p)
    \/ try_refresh(p)
    \/ try_refresh_access(p)
    \/ try_refresh_refresh(p)
    \/ regenerate(p)
    \/ regenerate_lock(p)
    \/ regenerate_callback_err(p)
    \/ regenerate_callback_ok(p)
    \/ regenerate_await(p)
    \/ regenerate_set_expires_at(p)
    \/ regenerate_set_refresh_expires_at(p)
    \/ regenerate_set_access_token(p)
    \/ regenerate_set_refresh_token(p)
    \/ call_is_valid(p)
    \/ ret_is_access_valid(p)
    \/ ret_is_refresh_valid(p)

\* one step of a read of task p
Read(p) ==
    \/ call_getter(p)
    \/ ret_getter(p)
    \/ to_tokens(p)
    \/ to_tokens_refresh_token(p)
    \/ to_tokens_expires_at(p)
    \/ to_tokens_refresh_expires_at(p)

\* one step of a refresh() of task p
Refresh(p) ==
    \/ refresh(p)
    \/ refresh_await(p)
    \/ refresh_set_expires_at(p)
    \/ refresh_set_refresh_expires_at(p)
    \/ refresh_set_access_token(p)
    \/ refresh_set_refresh_token(p)

\* one step of a regenerate() of task p
Regenerate(p) ==
    \/ regenerate(p)
    \/ regenerate_lock(p)
    \/ regenerate_callback_err(p)
    \/ regenerate_callback_ok(p)
    \/ regenerate_await(p)
    \/ regenerate_set_expires_at(p)
    \/ regenerate_set_refresh_expires_at(p)
    \/ regenerate_set_access_token(p)
    \/ regenerate_set_refresh_token(p)

\* one step of a request of task p
ApiRequest(p) ==
    \/ api_request(p)
    \/ api_request_failed(p)
    \/ api_request_await(p)

\* one caller uses the Auth, one call after the other
Next ==
    \/ Tick
    \/ Quiescent /\ Setters
    \/ Quiescent /\ set_callback
    \/ tokens_to_auth
    \/ \E p \in {1} : Step(p)

\* two tasks use the Auth concurrently
NextConc ==
    \/ Tick
    \/ set_callback
    \/ tokens_to_auth
    \/ \E p \in Procs : Step(p)

\* one caller refreshes, sets and reads the fields, one call after the other
NextRead ==
    \/ Tick
    \/ Quiescent /\ Setters
    \/ tokens_to_auth
    \/ \E p \in {1} :
          \/ Refresh(p)
          \/ Read(p)
          \/ call_is_valid(p)
          \/ ret_is_access_valid(p)
          \/ ret_is_refresh_valid(p)

\* task 1 writes (refresh, regenerate) while task 2 reads
NextReadConc ==
    \/ Tick
    \/ set_callback
    \/ tokens_to_auth
    \/ \E p \in {1} : Refresh(p) \/ Regenerate(p)
    \/ \E q \in {2} :
          \/ Read(q)
          \/ call_is_valid(q)
          \/ ret_is_access_valid(q)
          \/ ret_is_refresh_valid(q)

\* one caller refreshes, sets the fields and sends requests, one call after
\* the other
NextApi ==
    \/ Tick
    \/ Quiescent /\ Setters
    \/ tokens_to_auth
    \/ \E p \in {1} : Refresh(p) \/ ApiRequest(p)

Spec == Init /\ [][Next]_vars

SpecConc == Init /\ [][NextConc]_vars

SpecRead == Init /\ [][NextRead]_vars

SpecReadConc == Init /\ [][NextReadConc]_vars

SpecApi == Init /\ [][NextApi]_vars

(* ============================== claims ================================ *)
\* task p has returned from operation op
Done(p, op) == frame[p].pc = "done" /\ frame[p].op = op

\* task p returns from operation op with result r in this step
Returns(p, op, r) ==
    /\ frame[p].pc # "done"
    /\ frame'[p].pc = "done"
    /\ frame'[p].op = op
    /\ frame'[p].result = r

\* task p takes the step of try_refresh that reads is_access_valid()
ReadsAccess(p) ==
    /\ frame[p].pc = "try_refresh_access"
    /\ frame'[p].pc # "try_refresh_access"

\* the step leaves the Auth's token fields and the token endpoint alone
Untouched == tokenState' = tokenState /\ netCalls' = netCalls

\* what refresh() makes of the token endpoint's answer t
RefreshResult(t) ==
    IF ~t.ok THEN "OAuth2"
    ELSE IF t.expires_in = None \/ t.refresh_token = None THEN "Panic"
    ELSE "Ok"

\* C1 (as stated): whenever try_refresh returns Ok(()), an access token is
\* present (non-empty) and now < expires_at at the moment of return.
C1_Original ==
    [][\A p \in Procs :
          Returns(p, "try_refresh", "Ok") =>
              (access_token' # Empty /\ now' < expires_at')]_vars

\* C1 (amended): whenever try_refresh returns Ok(()) to a caller that is the
\* only user of the Auth, now < expires_at at the moment of return; nothing
\* is said of the access token, which may be empty.
C1_ExpiryInFuture ==
    [][\A p \in Procs :
          Returns(p, "try_refresh", "Ok") => now' < expires_at']_vars

\* try_refresh has returned Ok(()) while the access token is empty
C1_Witness ==
    /\ Done(1, "try_refresh")
    /\ frame[1].result = "Ok"
    /\ access_token = Empty
    /\ now < expires_at

\* C2: with the access expiry passed and the refresh expiry ahead,
\* try_refresh goes on to refresh(); the call then sends exactly one request
\* to the token endpoint and returns what refresh() makes of the answer,
\* Ok(()) for a token response that carries expires_in and refresh_token.
C2_OneRefresh ==
    [][\A p \in Procs :
          /\ (ReadsAccess(p) /\ ~(now < expires_at) /\ now < refresh_expires_at)
                => frame'[p].pc = "try_refresh_refresh"
          /\ (/\ frame[p].pc # "done"
              /\ frame'[p].pc = "done"
              /\ frame'[p].op = "try_refresh"
              /\ ~frame'[p].access_valid
              /\ frame'[p].refresh_valid)
                => /\ frame'[p].calls = 1
                   /\ frame'[p].result =
                         IF frame[p].pc = "refresh_await"
                           THEN "OAuth2"
                           ELSE RefreshResult(frame[p].token)]_vars

\* try_refresh found access expired and refresh valid, refreshed once and
\* returned Ok(())
C2_Witness ==
    /\ Done(1, "try_refresh")
    /\ ~frame[1].access_valid
    /\ frame[1].refresh_valid
    /\ frame[1].calls = 1
    /\ frame[1].result = "Ok"

\* C3: with both expiries passed, try_refresh returns Err(RefreshExpired),
\* sends nothing to the token endpoint and writes none of the four fields.
C3_RefreshExpired ==
    [][\A p \in Procs :
          /\ (ReadsAccess(p) /\ ~(now < expires_at) /\ ~(now < refresh_expires_at))
                => /\ Returns(p, "try_refresh", "RefreshExpired")
                   /\ frame'[p].calls = 0
                   /\ frame'[p].wrote = 0
                   /\ Untouched
          /\ frame'[p].pc = "try_refresh_access" => Untouched]_vars

\* try_refresh has returned Err(RefreshExpired) on an Auth that holds tokens
\* whose expiries have both passed
C3_Witness ==
    /\ Done(1, "try_refresh")
    /\ frame[1].result = "RefreshExpired"
    /\ access_token # Empty
    /\ refresh_token # Empty
    /\ lastWrite.by = "refresh"
    /\ ~(now < expires_at)
    /\ ~(now < refresh_expires_at)

\* C4: with the access expiry ahead, try_refresh returns Ok(()), sends
\* nothing to the token endpoint and writes none of the four fields, whether
\* the refresh expiry has passed or not.
C4_NoOp ==
    [][\A p \in Procs :
          /\ (ReadsAccess(p) /\ now < expires_at)
                => /\ Returns(p, "try_refresh", "Ok")
                   /\ frame'[p].calls = 0
                   /\ frame'[p].wrote = 0
                   /\ Untouched
          /\ frame'[p].pc = "try_refresh_access" => Untouched]_vars

\* try_refresh has returned Ok(()) with access valid and refresh expired
C4_Witness ==
    /\ Done(1, "try_refresh")
    /\ frame[1].result = "Ok"
    /\ frame[1].access_valid
    /\ ~frame[1].refresh_valid
    /\ now < expires_at
    /\ ~(now < refresh_expires_at)

\* task p is inside a try_refresh call
InTryRefresh(p) == frame[p].op = "try_refresh" /\ frame[p].pc # "done"

\* C5 (as stated): two try_refresh calls that run at the same time, with
\* access expired and refresh valid, send one request to the token endpoint
\* between them: never has each of two calls in progress sent its own.
C5_Original ==
    \A p, q \in Procs :
        (p # q /\ InTryRefresh(p) /\ InTryRefresh(q))
            => frame[p].calls + frame[q].calls <= 1

\* C6 (as stated): is_access_valid() / is_refresh_valid() returns true iff
\* the token is present (non-empty) and now < its stored expiry.
C6_Original ==
    [][\A p \in Procs :
          /\ Returns(p, "is_access_valid", "none")
                => frame'[p].access_valid =
                      (access_token # Empty /\ now < expires_at)
          /\ Returns(p, "is_refresh_valid", "none")
                => frame'[p].refresh_valid =
                      (refresh_token # Empty /\ now < refresh_expires_at)]_vars

\* C6 (amended): is_access_valid() / is_refresh_valid() returns true iff
\* now < the stored expiry of that token; the token itself is not looked at.
C6_ExpiryOnly ==
    [][\A p \in Procs :
          /\ Returns(p, "is_access_valid", "none")
                => frame'[p].access_valid = (now < expires_at)
          /\ Returns(p, "is_refresh_valid", "none")
                => frame'[p].refresh_valid = (now < refresh_expires_at)]_vars

\* is_access_valid() has returned true for an empty access token
C6_Witness ==
    /\ Done(1, "is_access_valid")
    /\ frame[1].access_valid
    /\ access_token = Empty
    /\ lastWrite.by = "setter"

\* C7: an Auth as Auth::new or AuthTokens::default().to_auth(..) built it,
\* with nothing written since, has is_access_valid() and is_refresh_valid()
\* false whatever the clock shows.
C7_Unauthenticated ==
    lastWrite.by \in {"new", "default"}
        => (~is_access_valid /\ ~is_refresh_valid)

\* an Auth built from the default tokens, with the clock a refresh window on
C7_Witness == lastWrite.by = "default" /\ now >= RefreshWindow

\* C8: when regenerate returns Ok(()) at time t with the provider's
\* expires_in e, is_access_valid() is true at once, and from then on, while
\* nothing else writes the fields, it is true exactly while now < t + e.
C8_ValidUntilExpiry ==
    [][\A p \in Procs :
          /\ Returns(p, "regenerate", "Ok")
                => /\ lastWrite'.by = "regenerate"
                   /\ lastWrite'.at = now'
                   /\ now' < expires_at'
          /\ (/\ frame'[p].pc = "done"
              /\ frame'[p].op = "regenerate"
              /\ frame'[p].result = "Ok"
              /\ lastWrite'.by = "regenerate")
                => ((now' < expires_at')
                       <=> (now' < lastWrite'.at + lastWrite'.expires_in))]_vars

\* regenerate succeeded, nothing was written since, and the clock has
\* passed the expiry: the access token is no longer valid
C8_Witness ==
    /\ Done(1, "regenerate")
    /\ frame[1].result = "Ok"
    /\ lastWrite.by = "regenerate"
    /\ now >= lastWrite.at + lastWrite.expires_in
    /\ ~is_access_valid

\* C9: when the callback hands regenerate a CSRF state other than the one
\* issued, regenerate returns Err(StateMismatch), sends nothing to the token
\* endpoint and writes none of the four fields.
C9_StateMismatch ==
    [][\A p \in Procs :
          (/\ frame[p].pc = "regenerate_callback"
           /\ frame'[p].pc # "regenerate_callback"
           /\ frame'[p].client_state # frame'[p].state)
             => /\ Returns(p, "regenerate", "StateMismatch")
                /\ frame'[p].calls = 0
                /\ frame'[p].wrote = 0
                /\ Untouched]_vars

\* regenerate has returned Err(StateMismatch) on an Auth that holds tokens
C9_Witness ==
    /\ Done(1, "regenerate")
    /\ frame[1].result = "StateMismatch"
    /\ frame[1].client_state # frame[1].state
    /\ access_token # Empty

\* C10: when the token endpoint fails the code exchange, regenerate returns
\* Err(Access) and writes none of the four fields.
C10_AccessError ==
    [][\A p \in Procs :
          (/\ frame[p].pc = "regenerate_await"
           /\ frame'[p].pc # "regenerate_await"
           /\ ~frame'[p].token.ok)
             => /\ Returns(p, "regenerate", "Access")
                /\ frame'[p].wrote = 0
                /\ tokenState' = tokenState]_vars

\* regenerate has returned Err(Access) on an Auth that holds tokens
C10_Witness ==
    /\ Done(1, "regenerate")
    /\ frame[1].result = "Access"
    /\ frame[1].calls = 1
    /\ frame[1].wrote = 0
    /\ access_token # Empty
    /\ refresh_token # Empty

\* task p calls refresh() in this step
CallsRefresh(p) ==
    /\ Ready(p)
    /\ frame'[p] # frame[p]
    /\ frame'[p].op = "refresh"

\* C11 (as stated): refresh() called while no refresh token is stored (the
\* stored one is empty) returns Err(Refresh) at once, sends nothing to the
\* token endpoint and writes none of the four fields.
C11_Original ==
    [][\A p \in Procs :
          (CallsRefresh(p) /\ refresh_token = Empty)
             => /\ frame'[p].pc = "done"
                /\ frame'[p].result = "Refresh"
                /\ Untouched]_vars

\* task p stores the last field of a token response and returns Ok(())
CompletesExchange(p) ==
    /\ frame[p].pc \in {"refresh_set_refresh_token",
                        "regenerate_set_refresh_token"}
    /\ frame'[p].pc = "done"
    /\ frame'[p].result = "Ok"

\* C12: when refresh() or regenerate() (or the refresh() inside try_refresh)
\* returns Ok(()) at time t to the only user of the Auth, for a response that
\* reported expires_in = e, the stored access expiry is t + e and the stored
\* refresh expiry is t + 31*24*60*60.
C12_ExpiryRule ==
    [][\A p \in Procs :
          CompletesExchange(p)
             => /\ expires_at' = now' + unwrap(frame[p].token.expires_in)
                /\ refresh_expires_at' = now' + 31 * 24 * 60 * 60]_vars

\* refresh() has returned Ok(()) at time 1 and nothing was written since
C12_Witness ==
    /\ Done(1, "refresh")
    /\ frame[1].result = "Ok"
    /\ lastWrite.by = "refresh"
    /\ lastWrite.at = 1
    /\ expires_at = 1 + lastWrite.expires_in
    /\ refresh_expires_at = 1 + 31 * 24 * 60 * 60

\* C13 (as stated): when the token response of a refresh() carries no
\* refresh token, refresh() returns Ok(()) with the response's access token
\* stored and the stored refresh token left as it was.
C13_Original ==
    [][\A p \in Procs :
          (/\ frame[p].pc = "refresh_set_refresh_token"
           /\ frame[p].token.refresh_token = None
           /\ frame'[p].pc = "done")
             => /\ frame'[p].result = "Ok"
                /\ access_token' = frame[p].token.access_token
                /\ refresh_token' = refresh_token]_vars

\* C14 (as stated): when a token response omits expires_in, refresh() and
\* regenerate() return a typed error, not a panic, and write none of the
\* four fields.
C14_Original ==
    [][\A p \in Procs :
          (/\ frame[p].pc \in {"refresh_set_expires_at",
                               "regenerate_set_expires_at"}
           /\ frame[p].token.expires_in = None
           /\ frame'[p].pc = "done")
             => /\ frame'[p].result \notin {"Ok", "Panic"}
                /\ tokenState' = tokenState]_vars

\* C15 (as stated): the Auth b rebuilt from a.to_tokens() holds the same
\* access token, refresh token, access expiry and refresh expiry as a, and
\* is_access_valid() / is_refresh_valid() give the same on b as on a.
C15_Original ==
    [][\A p \in Procs :
          Returns(p, "to_tokens", "none")
             => LET b == to_auth(frame'[p].tokens)
                IN  /\ b.access_token = access_token'
                    /\ b.refresh_token = refresh_token'
                    /\ b.expires_at = expires_at'
                    /\ b.refresh_expires_at = refresh_expires_at'
                    /\ (now' < b.expires_at) = (now' < expires_at')
                    /\ (now' < b.refresh_expires_at)
                          = (now' < refresh_expires_at')]_vars

\* C16 (as stated): refresh_expires_at() returns the stored refresh expiry,
\* whatever the access expiry is.
C16_Original ==
    [][\A p \in Procs :
          Returns(p, "refresh_expires_at", "none")
             => frame'[p].value = refresh_expires_at']_vars

\* tokens are stored and both expiries have passed
BothExpired ==
    /\ access_token # Empty
    /\ refresh_token # Empty
    /\ ~is_access_valid
    /\ ~is_refresh_valid

\* C17 (as stated): no step of a try_refresh() or of a direct refresh()
\* taken in BothExpired leaves the access token valid.
C17_Original ==
    [][\A p \in Procs :
          (/\ BothExpired
           /\ frame'[p] # frame[p]
           /\ frame'[p].op \in {"refresh", "try_refresh"})
             => ~(now' < expires_at')]_vars

\* task p has stored some but not all fields of a token response
MidApply(p) ==
    frame[p].pc \in {"refresh_set_refresh_expires_at",
                     "refresh_set_access_token",
                     "refresh_set_refresh_token",
                     "regenerate_set_refresh_expires_at",
                     "regenerate_set_access_token",
                     "regenerate_set_refresh_token"}

\* both tasks have returned Ok(()) from a refresh() or a regenerate()
BothStored ==
    \A p \in Procs :
        /\ frame[p].pc = "done"
        /\ frame[p].op \in {"refresh", "regenerate"}
        /\ frame[p].result = "Ok"

\* C18 (as stated): once two token-writing operations on one Auth have
\* returned Ok(()), the four fields are the full result of one exchange:
\* access and refresh token of the same response, and both expiries
\* counted from the same instant.
C18_Original ==
    BothStored
        => /\ access_token = refresh_token
           /\ \E e \in ExpiresInValues :
                 expires_at + RefreshWindow = refresh_expires_at + e

\* C19 (as stated): a reader never runs while another task has stored a
\* part of a token response: is_access_valid() does not return at a moment
\* when some, but not all, of the four fields belong to the new response.
C19_Original ==
    [][\A p, q \in Procs :
          (p # q /\ Returns(q, "is_access_valid", "none")) => ~MidApply(p)]_vars

\* what the exchange that wrote last has stored
Written ==
    [access_token |-> lastWrite.xid, refresh_token |-> lastWrite.xid,
     expires_at |-> lastWrite.at + lastWrite.expires_in,
     refresh_expires_at |-> lastWrite.at + RefreshWindow]

\* a refresh() or regenerate() has stored all four fields and nothing has
\* written since
ExchangeStored ==
    /\ lastWrite.by \in {"refresh", "regenerate"}
    /\ refresh_token = lastWrite.xid
    /\ \A p \in Procs : ~MidApply(p)

\* task q takes the step that reads the field(s) named by pc
ReadsAt(q, pc) == frame[q].pc = pc /\ frame'[q].pc # pc

C21_Original ==
    \A p \in Procs :
        frame[p].pc = "regenerate_callback"
            => (cbLock = NoHolder /\ ENABLED set_callback)

\* C25 (as stated): regenerate() on an Auth whose callback was never set
\* returns a typed error, not a panic, and writes none of the four fields.
C25_Original ==
    [][\A p \in Procs :
          (/\ frame[p].pc = "regenerate_lock"
           /\ frame'[p].pc # "regenerate_lock"
           /\ callback = "default")
             => /\ frame'[p].pc = "done"
                /\ frame'[p].result \notin {"Ok", "Panic"}
                /\ Untouched]_vars

\* C27: when the callback of a regenerate() completes with an error (it
\* hands back no code and no state), regenerate() returns Err(Callback),
\* has sent nothing to the token endpoint and has written none of the four
\* fields.
C27_CallbackError ==
    [][\A p \in Procs :
          (/\ frame[p].pc = "regenerate_callback"
           /\ frame'[p].pc # "regenerate_callback"
           /\ frame'[p].client_state \notin StateSecrets)
             => /\ Returns(p, "regenerate", "Callback")
                /\ frame'[p].calls = 0
                /\ frame'[p].wrote = 0
                /\ Untouched]_vars

\* regenerate has returned Err(Callback) on an Auth that holds the tokens
\* of an earlier exchange
C27_Witness ==
    /\ Done(1, "regenerate")
    /\ frame[1].result = "Callback"
    /\ frame[1].calls = 0
    /\ ExchangeStored
    /\ access_token = lastWrite.xid

\* C28: when the token endpoint fails the exchange of a refresh(), the call
\* returns Err(OAuth2), also out of try_refresh(), and has written none of
\* the four fields.
C28_RefreshError ==
    [][\A p \in Procs :
          (/\ frame[p].pc = "refresh_await"
           /\ frame'[p].pc # "refresh_await"
           /\ ~frame'[p].token.ok)
             => /\ frame'[p].pc = "done"
                /\ frame'[p].op \in {"refresh", "try_refresh"}
                /\ frame'[p].result = "OAuth2"
                /\ frame'[p].wrote = 0
                /\ tokenState' = tokenState]_vars

\* try_refresh found access expired and refresh valid, the exchange failed,
\* and it has returned Err(OAuth2) with the stored tokens as they were
C28_Witness ==
    /\ Done(1, "try_refresh")
    /\ frame[1].result = "OAuth2"
    /\ frame[1].calls = 1
    /\ frame[1].wrote = 0
    /\ ~frame[1].access_valid
    /\ frame[1].refresh_valid
    /\ access_token # Empty
    /\ refresh_token # Empty

\* C29 (as stated): the snapshot to_tokens() returns is a state the Auth
\* held at one instant.  A writer stores the access token before the refresh
\* token, so the Auth never holds a refresh token newer than its access
\* token, and no snapshot pairs an older access token with a newer refresh
\* token.
C29_Original ==
    [][\A q \in Procs :
          Returns(q, "to_tokens", "none")
             => frame'[q].tokens.access_token
                   >= frame'[q].tokens.refresh_token]_vars

\* C24 (as stated): the code_challenge in the authorization URL that
\* regenerate() hands to the callback is not the code verifier itself.
C24_Original ==
    \A p \in Procs :
        frame[p].pc \in {"regenerate_lock", "regenerate_callback"}
            => frame[p].pkce_challenge # frame[p].pkce_verifier

\* task p waits for the answer of the token endpoint
InFlight(p) == frame[p].pc \in {"refresh_await", "regenerate_await"}

\* C26: while the exchange of a refresh() or regenerate() is in flight, the
\* waiting task holds none of the four field locks and every field lock is
\* free, so a read another task has begun (is_access_valid, a getter, each
\* read of to_tokens) and each unchecked setter can take its step at once.
C26_NoFieldLock ==
    \A p \in Procs :
        InFlight(p)
            => /\ frame[p].held = {}
               /\ \A f \in Fields : Free(f)
               /\ \A q \in Procs \ {p} :
                     /\ frame[q].pc = "is_access_valid"
                           => ENABLED ret_is_access_valid(q)
                     /\ frame[q].pc \in {"access_token", "refresh_token",
                                         "expires_at", "refresh_expires_at"}
                           => ENABLED ret_getter(q)
                     /\ Ready(q) => ENABLED to_tokens(q)
                     /\ frame[q].pc = "to_tokens_refresh_token"
                           => ENABLED to_tokens_refresh_token(q)
                     /\ frame[q].pc = "to_tokens_expires_at"
                           => ENABLED to_tokens_expires_at(q)
                     /\ frame[q].pc = "to_tokens_refresh_expires_at"
                           => ENABLED to_tokens_refresh_expires_at(q)
               /\ ENABLED set_access_token_unchecked
               /\ ENABLED set_refresh_token_unchecked
               /\ ENABLED set_expires_at_unchecked
               /\ ENABLED set_expires_in_unchecked
               /\ ENABLED set_refresh_expires_at_unchecked
               /\ ENABLED set_refresh_expires_in_unchecked

\* the second exchange of task 1 is in flight while task 2 is in the middle
\* of a to_tokens(), its first two reads done
C26_Witness ==
    /\ frame[1].pc = "refresh_await"
    /\ frame[1].xid = 2
    /\ frame[2].pc = "to_tokens_expires_at"
    /\ frame[2].tokens.access_token = 1
    /\ frame[2].tokens.refresh_token = 1

\* task p builds and sends a request in this step
SendsRequest(p) ==
    /\ Ready(p)
    /\ frame'[p] # frame[p]
    /\ frame'[p].op = "api_request"

\* C22 (as stated): an authenticated request puts its HTTP call on the wire
\* only while the access token is valid (now < expires_at).
C22_Original ==
    [][\A p \in Procs :
          (SendsRequest(p) /\ frame'[p].is_auth /\ frame'[p].http = 1)
             => now < expires_at]_vars

\* C23: no step of a request, authenticated or not and whatever its
\* outcome, changes the access token, the refresh token or an expiry, or
\* calls the token endpoint; a request with is_auth = false carries the
\* client id header and no token.
C23_TokensUntouched ==
    [][\A p \in Procs :
          (frame'[p] # frame[p] /\ frame'[p].op = "api_request")
             => /\ Untouched
                /\ lastWrite' = lastWrite
                /\ ~frame'[p].is_auth
                      => (frame'[p].bearer = None /\ frame'[p].client_id)
                /\ frame'[p].is_auth
                      => (frame'[p].bearer = Some(access_token)
                            /\ ~frame'[p].client_id)]_vars

\* an unauthenticated request has returned on an Auth that holds the tokens
\* of an exchange: it carried the client id and no token
C23_Witness ==
    /\ Done(1, "api_request")
    /\ ~frame[1].is_auth
    /\ frame[1].client_id
    /\ frame[1].bearer = None
    /\ frame[1].http = 1
    /\ ExchangeStored
    /\ access_token = lastWrite.xid

\* C30: for a response with the given status and body, api_request returns
\* Ok only if the status is 200 and the body is no error object; 400, 401,
\* 403 and 404 give InvalidParameters, InvalidToken, Forbidden and NotFound
\* whatever the body; any other status but 200 gives ErrorMessage for an
\* error body and StatusCode otherwise; 200 with an error body gives
\* ErrorMessage.
C30_StatusMapping ==
    [][\A p \in Procs :
          (/\ frame[p].pc = "api_request_await"
           /\ frame'[p].pc = "done"
           /\ frame'[p].status \in StatusCodes)
             => LET status == frame'[p].status
                    body == frame'[p].body
                    result == frame'[p].result
                IN  /\ result = "Ok" => (status = 200 /\ body # "error")
                    /\ status = 400 => result = "InvalidParameters"
                    /\ status = 401 => result = "InvalidToken"
                    /\ status = 403 => result = "Forbidden"
                    /\ status = 404 => result = "NotFound"
                    /\ (status \notin {200, 400, 401, 403, 404}
                          /\ body = "error") => result = "ErrorMessage"
                    /\ (status \notin {200, 400, 401, 403, 404}
                          /\ body # "error") => result = "StatusCode"
                    /\ (status = 200 /\ body = "error")
                          => result = "ErrorMessage"]_vars

\* a request has returned InvalidToken for a 401 whose body was an error
\* object
C30_Witness ==
    /\ Done(1, "api_request")
    /\ frame[1].status = 401
    /\ frame[1].body = "error"
    /\ frame[1].result = "InvalidToken"

====
